---------------------------- MODULE Spec2Model ----------------------------
(***************************************************************************)
(* Model of the lexer (src/syntax/lexer.rs), the token classification      *)
(* (src/syntax/token.rs), the parser cursor (src/syntax/parser.rs) and the *)
(* grammar rules (src/syntax/ast).                                         *)
(*                                                                         *)
(* A character is a string of length one (the backtick, which a TLA+       *)
(* string cannot hold, is the value Backtick); a Rust String is a sequence *)
(* of characters; Option<T> is a sequence of length 0 (None) or 1 (Some).  *)
(***************************************************************************)
EXTENDS Integers, Sequences, FiniteSets, TLC

VARIABLES
    \* struct Lexer
    tokens, last_char, buffer, state, line, column,
    \* the characters passed to feed so far, and what the last feed returned
    fed, res,
    \* Lexer::lex: its argument, its position (lexing/ok/err) and its result
    input, pc, lexret,
    \* struct Parser (the cursor), the vector given to from_tokens, and
    \* the last cursor/grammar operation with its result
    cursor, given, pres,
    \* Token::from_str: its argument and the token it returned
    wstr, wtoken

lexerVars == <<tokens, last_char, buffer, state, line, column>>
lexVars == <<input, pc, lexret>>
parserVars == <<cursor, given, pres>>
wordVars == <<wstr, wtoken>>
vars == <<tokens, last_char, buffer, state, line, column, fed, res,
          input, pc, lexret, cursor, given, pres, wstr, wtoken>>

---------------------------------------------------------------------------
\* Bounds of the model

\* number of feed calls on one Lexer
MaxFeeds == 4
\* length of the text given to lex
MaxInput == 5
\* length of the token vector given to Parser::from_tokens
MaxTokens == 3
\* length of the token vector a comma-delimited list is parsed from
MaxList == 6

---------------------------------------------------------------------------
\* Characters

Lower == <<"a","b","c","d","e","f","g","h","i","j","k","l","m",
           "n","o","p","q","r","s","t","u","v","w","x","y","z">>
Upper == <<"A","B","C","D","E","F","G","H","I","J","K","L","M",
           "N","O","P","Q","R","S","T","U","V","W","X","Y","Z">>
Digits == {"0","1","2","3","4","5","6","7","8","9"}

Range(s) == {s[i] : i \in 1..Len(s)}

Letters == Range(Lower) \cup Range(Upper)

IsLetter(c) == c \in Letters

\* char::to_lowercase
to_lowercase(c) ==
    IF c \in Range(Upper)
    THEN Lower[CHOOSE i \in 1..Len(Upper) : Upper[i] = c]
    ELSE c

\* the character U+0060
Backtick == "backtick"

\* the characters fed one by one to a Lexer
Chars == {"a", "A", "5", ".", Backtick, "\\", " ", "\n", ";",
          "<", ">", "|", "-", "+", "=", ",", "#"}

\* the characters of the texts given to lex
LexChars == {"a", "5", Backtick, "\\", " ", "\n", "-", ";"}

---------------------------------------------------------------------------
\* Tokens (src/syntax/token.rs)

Tok(t) == [type |-> t, text |-> <<>>]
Lit(t, w) == [type |-> t, text |-> w]

StringLiteral(w) == Lit("StringLiteral", w)
NumberLiteral(w) == Lit("NumberLiteral", w)
Identifier(w) == Lit("Identifier", w)

\* Token::from_char: Option<Token>
from_char(c) ==
    CASE c = "=" -> <<Tok("EQUAL")>>
      [] c = "<" -> <<Tok("LESSTHAN")>>
      [] c = ">" -> <<Tok("GREATERTHAN")>>
      [] c = "+" -> <<Tok("PLUS")>>
      [] c = "-" -> <<Tok("MINUS")>>
      [] c = "(" -> <<Tok("LEFTPAREN")>>
      [] c = "[" -> <<Tok("LEFTBRACKET")>>
      [] c = ")" -> <<Tok("RIGHTPAREN")>>
      [] c = "]" -> <<Tok("RIGHTBRACKET")>>
      [] c = "." -> <<Tok("DOT")>>
      [] c = "," -> <<Tok("COMMA")>>
      [] c = ";" -> <<Tok("SEMICOLON")>>
      [] c = "*" -> <<Tok("ASTERISK")>>
      [] c = "&" -> <<Tok("AMPERSAND")>>
      [] c = "|" -> <<Tok("PIPE")>>
      [] c = "/" -> <<Tok("FORWARDSLASH")>>
      [] OTHER -> <<>>

\* s.chars().flat_map(|c| c.to_lowercase()).collect()
Lowercase(w) == [i \in 1..Len(w) |-> to_lowercase(w[i])]

\* a from_str that matches the word as written
from_strAsWritten(s) ==
    CASE s = <<"i","f">> -> Tok("IF")
      [] s = <<"n","o","t">> -> Tok("NOT")
      [] s = <<"o","r">> -> Tok("OR")
      [] s = <<"i","n","t">> -> Tok("INTEGER")
      [] s = <<"i","n","t","o">> -> Tok("INTO")
      [] OTHER -> Identifier(s)

\* Token::from_str
from_str(s) ==
    LET word == Lowercase(s) IN
    CASE word = <<"s","e","l","e","c","t">> -> Tok("SELECT")
      [] word = <<"f","r","o","m">> -> Tok("FROM")
      [] word = <<"w","h","e","r","e">> -> Tok("WHERE")
      [] word = <<"o","r","d","e","r">> -> Tok("ORDER")
      [] word = <<"i","n","s","e","r","t">> -> Tok("INSERT")
      [] word = <<"i","n","t","o">> -> Tok("INTO")
      [] word = <<"c","r","e","a","t","e">> -> Tok("CREATE")
      [] word = <<"t","a","b","l","e">> -> Tok("TABLE")
      [] word = <<"d","r","o","p">> -> Tok("DROP")
      [] word = <<"i","f">> -> Tok("IF")
      [] word = <<"e","x","i","s","t","s">> -> Tok("EXISTS")
      [] word = <<"n","o","t">> -> Tok("NOT")
      [] word = <<"n","u","l","l">> -> Tok("NULL")
      [] word = <<"d","e","f","a","u","l","t">> -> Tok("DEFAULT")
      [] word = <<"s","e","r","i","a","l">> -> Tok("SERIAL")
      [] word = <<"a","n","d">> -> Tok("AND")
      [] word = <<"o","r">> -> Tok("OR")
      [] word = <<"i","n","t">> -> Tok("INTEGER")
      [] word = <<"i","n","t","e","g","e","r">> -> Tok("INTEGER")
      [] word = <<"t","e","x","t">> -> Tok("TEXT")
      [] word = <<"f","l","o","a","t">> -> Tok("FLOAT")
      [] word = <<"b","l","o","b">> -> Tok("BLOB")
      [] OTHER -> Identifier(word)

---------------------------------------------------------------------------
\* Lexer (src/syntax/lexer.rs).  A lexer value is the record of its fields.

Self == [tokens |-> tokens, last_char |-> last_char, buffer |-> buffer,
         state |-> state, line |-> line, column |-> column]

\* the Lexer that lex and the tests construct
Fresh == [tokens |-> <<>>, last_char |-> " ", buffer |-> <<>>,
          state |-> "None", line |-> 0, column |-> 0]

\* an error that throws the pending buffer away
errorClearsBuffer(L, c, expected) ==
    [kind |-> "Err",
     err |-> [c |-> c, line |-> L.line, column |-> L.column,
              expected |-> expected],
     lexer |-> [L EXCEPT !.buffer = <<>>]]

\* Lexer::error: Err(message); the parts of the message are kept apart
error(L, c, expected) ==
    [kind |-> "Err",
     err |-> [c |-> c, line |-> L.line, column |-> L.column,
              expected |-> expected],
     lexer |-> L]

Ok(s, L) == [kind |-> "Ok", state |-> s, lexer |-> L]

\* s.find(c) for s = "<>|-+()[].,;*&|/=": the 0-based index of the first
\* occurrence, or -1 for Option::None
OpChars == <<"<", ">", "|", "-", "+", "(", ")", "[", "]", ".", ",", ";",
             "*", "&", "|", "/", "=">>

find(c) ==
    IF c \in Range(OpChars)
    THEN (CHOOSE i \in 1..Len(OpChars) :
              OpChars[i] = c /\ \A j \in 1..(i-1) : OpChars[j] # c) - 1
    ELSE -1

\* Lexer::next_state
next_state(L, c) ==
    CASE IsLetter(c) \/ c = "_" -> Ok("Text", L)
      [] c \in Digits -> Ok("Number", L)
      [] c = Backtick -> Ok("Escape(false)", L)
      [] c \in {" ", "\t", "\n"} -> Ok("None", L)
      [] c = ";" -> Ok("None", L)
      [] OTHER ->
           IF find(c) >= 0
           THEN IF find(c) < 4 THEN Ok("Disambiguate", L) ELSE Ok("None", L)
           ELSE error(L, c, "<>|-+()[].,*&|/=")

\* feed, lines 93-98: update line and column number
AdvanceKeepsColumn(L, c) ==
    IF c = "\n"
    THEN [L EXCEPT !.line = L.line + 1]
    ELSE [L EXCEPT !.column = L.column + 1]

Advance(L, c) ==
    IF c = "\n"
    THEN [L EXCEPT !.line = L.line + 1, !.column = 0]
    ELSE [L EXCEPT !.column = L.column + 1]

\* a comment whose text is kept in the buffer
FeedCommentKeepsText(L, c) ==
    IF c = "\n" THEN Ok("None", L)
    ELSE Ok("Comment", [L EXCEPT !.buffer = Append(L.buffer, c)])

\* feed, State::Comment arm
FeedComment(L, c) ==
    IF c = "\n" THEN Ok("None", L) ELSE Ok("Comment", L)

\* feed, State::None arm
FeedNone(L, c) ==
    LET n == next_state(L, c) IN
    IF n.kind = "Err" THEN n
    ELSE CASE n.state = "None" ->
                Ok("None", [L EXCEPT !.tokens = L.tokens \o from_char(c)])
           [] n.state = "Comment" -> Ok("Comment", L)
           [] n.state \in {"Text", "Number"} ->
                Ok(n.state, [L EXCEPT !.buffer = Append(L.buffer, c)])
           [] n.state = "Operator" ->
                IF from_char(c) = <<>>
                THEN [kind |-> "Panic", lexer |-> L]
                ELSE Ok("Operator",
                        [L EXCEPT !.tokens = L.tokens \o from_char(c)])
           [] OTHER -> Ok(n.state, L)

\* feed, State::Text arm
FeedText(L, c) ==
    LET n == next_state(L, c) IN
    IF n.kind = "Err" THEN n
    ELSE CASE n.state \in {"Text", "Number"} ->
                Ok("Text", [L EXCEPT !.buffer = Append(L.buffer, c)])
           [] n.state = "None" ->
                Ok("None",
                   [L EXCEPT !.buffer = <<>>,
                             !.tokens = Append(L.tokens, from_str(L.buffer))
                                            \o from_char(c)])
           [] OTHER -> error(L, c, "valid identifier [a-Z|0-9|_]")

\* feed, State::Number arm
FeedNumber(L, c) ==
    LET n == next_state(L, c) IN
    IF n.kind = "Err" THEN n
    ELSE CASE n.state = "Number" ->
                Ok("Number", [L EXCEPT !.buffer = Append(L.buffer, c)])
           [] n.state = "Operator" ->
                IF c = "."
                THEN Ok("Number", [L EXCEPT !.buffer = Append(L.buffer, c)])
                ELSE error(L, c, "valid number [0-9|.]")
           [] n.state = "None" ->
                Ok("None",
                   [L EXCEPT !.buffer = <<>>,
                             !.tokens = Append(L.tokens,
                                               NumberLiteral(L.buffer))
                                            \o from_char(c)])
           [] OTHER -> error(L, c, "valid number [0-9|.]")

\* feed, State::Escape(escaped) arm
FeedEscape(L, c) ==
    CASE L.state = "Escape(false)" /\ c = Backtick -> Ok("Escape(false)", L)
      [] L.state = "Escape(true)" /\ c = Backtick ->
           IF L.last_char # "\\"
           THEN Ok("None", [L EXCEPT !.buffer = <<>>,
                                     !.tokens = Append(L.tokens,
                                                   StringLiteral(L.buffer))])
           ELSE Ok("None", L)
      [] OTHER ->
           Ok("Escape(true)", [L EXCEPT !.buffer = Append(L.buffer, c)])

\* a lexer with no lookahead: "<=" is "<" and then "="
FeedDisambiguateSplits(L, c) ==
    LET first == [L EXCEPT !.tokens = L.tokens \o from_char(L.last_char)] IN
    CASE <<L.last_char, c>> = <<"-", "-">> -> Ok("Comment", L)
      [] from_char(c) # <<>> ->
           Ok("None", [first EXCEPT !.tokens = first.tokens \o from_char(c)])
      [] c = " " -> Ok("None", first)
      [] OTHER -> error(L, c, "matching operator")

\* feed, State::Disambiguate arm
FeedDisambiguate(L, c) ==
    LET push(t) == Ok("None", [L EXCEPT !.tokens = Append(L.tokens, Tok(t))])
        pair == <<L.last_char, c>>
    IN
    CASE pair = <<"-", "-">> -> Ok("Comment", L)
      [] pair = <<"<", ">">> -> push("NOTEQUAL")
      [] pair = <<"<", "=">> -> push("LESSTHANOREQUAL")
      [] pair = <<">", "=">> -> push("GREATERTHANOREQUAL")
      [] pair = <<">", " ">> -> push("GREATERTHAN")
      [] pair = <<"<", " ">> -> push("LESSTHAN")
      [] pair = <<"|", "|">> -> push("DOUBLEPIPE")
      [] OTHER -> error(L, c, "matching operator")

\* feed, State::Operator arm
FeedOperator(L, c) == Ok("None", L)

\* Lexer::feed: what it returns, and the lexer it leaves
feed(L0, c) ==
    LET L == Advance(L0, c)
        r == CASE L.state = "Comment" -> FeedComment(L, c)
               [] L.state = "None" -> FeedNone(L, c)
               [] L.state = "Text" -> FeedText(L, c)
               [] L.state = "Number" -> FeedNumber(L, c)
               [] L.state \in {"Escape(false)", "Escape(true)"} ->
                    FeedEscape(L, c)
               [] L.state = "Disambiguate" -> FeedDisambiguate(L, c)
               [] L.state = "Operator" -> FeedOperator(L, c)
    IN
    IF r.kind = "Ok"
    THEN [r EXCEPT !.lexer = [r.lexer EXCEPT !.state = r.state,
                                             !.last_char = c]]
    ELSE r

\* what feed returned, without the lexer
Returned(r) ==
    CASE r.kind = "Ok" -> [kind |-> "Ok", state |-> r.state]
      [] r.kind = "Err" -> [kind |-> "Err", err |-> r.err]
      [] OTHER -> [kind |-> r.kind]

NoCall == [kind |-> "NoCall"]

\* the lexer fields after a call of feed
SetLexer(L) ==
    /\ tokens' = L.tokens
    /\ last_char' = L.last_char
    /\ buffer' = L.buffer
    /\ state' = L.state
    /\ line' = L.line
    /\ column' = L.column

InitLexer ==
    /\ tokens = Fresh.tokens
    /\ last_char = Fresh.last_char
    /\ buffer = Fresh.buffer
    /\ state = Fresh.state
    /\ line = Fresh.line
    /\ column = Fresh.column
    /\ fed = <<>>
    /\ res = NoCall

InitNoLex ==
    /\ input = <<>>
    /\ pc = "idle"
    /\ lexret = NoCall

InitNoParser ==
    /\ cursor = <<>>
    /\ given = <<>>
    /\ pres = NoCall

InitNoWord ==
    /\ wstr = <<>>
    /\ wtoken = NoCall

\* A Lexer as the unit tests build it, fed one character at a time
Init == InitLexer /\ InitNoLex /\ InitNoParser /\ InitNoWord

\* lex.feed(c), called on the Lexer directly
Feed(c) ==
    /\ pc = "idle"
    /\ Len(fed) < MaxFeeds
    /\ LET r == feed(Self, c) IN
         /\ SetLexer(r.lexer)
         /\ res' = Returned(r)
    /\ fed' = Append(fed, c)
    /\ UNCHANGED <<lexVars, parserVars, wordVars>>

Next == \E c \in Chars : Feed(c)

Spec == Init /\ [][Next]_vars

---------------------------------------------------------------------------
\* Lexer::lex

\* the loop of lex over the characters s, from lexer L: the first feed
\* that does not return Ok ends it (the ? operator)
RECURSIVE FeedAll(_, _)
FeedAll(L, s) ==
    IF s = <<>> THEN Ok(L.state, L)
    ELSE LET r == feed(L, Head(s)) IN
         IF r.kind = "Ok" THEN FeedAll(r.lexer, Tail(s)) ELSE r

\* Parser::from_tokens
from_tokens(v) == v

\* lex(s) as a function of s: Ok(Parser) or Err(message)
lex(s) ==
    LET r == FeedAll(Fresh, s) IN
    IF r.kind = "Ok"
    THEN [kind |-> "Ok", parser |-> from_tokens(r.lexer.tokens)]
    ELSE Returned(r)

\* the texts given to lex
Inputs == UNION {[1..n -> LexChars] : n \in 0..MaxInput}

InitLex ==
    /\ InitLexer
    /\ InitNoWord
    /\ input \in Inputs
    /\ pc = "lexing"
    /\ lexret = NoCall
    /\ InitNoParser

\* a loop that drops the error of feed and goes on (no ? operator)
LexFeedIgnoresError ==
    /\ pc = "lexing"
    /\ Len(fed) < Len(input)
    /\ LET c == input[Len(fed) + 1]
           r == feed(Self, c)
       IN
         /\ SetLexer(r.lexer)
         /\ res' = Returned(r)
         /\ fed' = Append(fed, c)
    /\ UNCHANGED <<pc, lexret, input, parserVars, wordVars>>

\* one turn of the loop of lex: lex.feed(c)?
LexFeed ==
    /\ pc = "lexing"
    /\ Len(fed) < Len(input)
    /\ LET c == input[Len(fed) + 1]
           r == feed(Self, c)
       IN
         /\ SetLexer(r.lexer)
         /\ res' = Returned(r)
         /\ fed' = Append(fed, c)
         /\ IF r.kind = "Ok"
            THEN UNCHANGED <<pc, lexret>>
            ELSE pc' = "err" /\ lexret' = Returned(r)
    /\ UNCHANGED <<input, parserVars, wordVars>>

\* the end of lex: Ok(Parser::from_tokens(lex.tokens))
LexReturn ==
    /\ pc = "lexing"
    /\ Len(fed) = Len(input)
    /\ pc' = "ok"
    /\ lexret' = [kind |-> "Ok", parser |-> from_tokens(tokens)]
    /\ UNCHANGED <<lexerVars, fed, res, input, parserVars, wordVars>>

NextLex == LexFeed \/ LexReturn

SpecLex == InitLex /\ [][NextLex]_vars

---------------------------------------------------------------------------
\* Parser cursor (src/syntax/parser.rs).  A Parser value is its VecDeque,
\* a sequence of tokens, front first.

\* enum ParserError
OutOfTokens == [error |-> "OutOfTokens", msg |-> <<>>]
\* Expecting(format!("{:?}, found {:?}", tok, expecting))
Expecting(what, tok) == [error |-> "Expecting", msg |-> <<what, tok>>]

POk(v, P) == [kind |-> "Ok", value |-> v, parser |-> P]
PErr(e, P) == [kind |-> "Err", err |-> e, parser |-> P]

\* Parser::peek: Option<&Token>
peek(P) == IF P = <<>> THEN <<>> ELSE <<Head(P)>>

\* Parser::peek_is
peek_is(P, expecting) == peek(P) = <<expecting>>

\* a pop that fails on an empty cursor as a mismatch does
popReportsMismatch(P) ==
    IF P = <<>> THEN PErr(Expecting(<<>>, <<>>), P) ELSE POk(Head(P), Tail(P))

\* a pop that returns the front token and leaves it on the cursor
popKeepsFront(P) ==
    IF P = <<>> THEN PErr(OutOfTokens, P) ELSE POk(Head(P), P)

\* Parser::pop
pop(P) == IF P = <<>> THEN PErr(OutOfTokens, P) ELSE POk(Head(P), Tail(P))

\* a pop_if that removes the front token whatever it is
pop_ifAlwaysPops(P, expecting) ==
    IF P # <<>>
    THEN [ret |-> peek_is(P, expecting), parser |-> Tail(P)]
    ELSE [ret |-> FALSE, parser |-> P]

\* Parser::pop_if
pop_if(P, expecting) ==
    IF peek_is(P, expecting)
    THEN [ret |-> TRUE, parser |-> Tail(P)]
    ELSE [ret |-> FALSE, parser |-> P]

\* an expect that leaves a token that does not match on the cursor
expectRestores(P, expecting) ==
    LET r == pop(P) IN
    IF r.kind = "Err" THEN r
    ELSE IF r.value = expecting THEN r
         ELSE PErr(Expecting(r.value, expecting), P)

\* Parser::expect
expect(P, expecting) ==
    LET r == pop(P) IN
    IF r.kind = "Err" THEN r
    ELSE IF r.value = expecting THEN r
         ELSE PErr(Expecting(r.value, expecting), r.parser)

\* expect_string, expect_number, expect_identifier: pop, then match on the
\* variant; the message is format!("<what>, found {:?}", tok)
expect_variant(P, variant, what) ==
    LET r == pop(P) IN
    IF r.kind = "Err" THEN r
    ELSE IF r.value.type = variant THEN r
         ELSE PErr(Expecting(what, r.value), r.parser)

\* Parser::expect_string
expect_string(P) == expect_variant(P, "StringLiteral", "string")

\* Parser::expect_number
expect_number(P) == expect_variant(P, "NumberLiteral", "number")

\* Parser::expect_identifier
expect_identifier(P) == expect_variant(P, "Identifier", "identifier")

---------------------------------------------------------------------------
\* Grammar rules (src/syntax/ast)

\* enum Column
All == [variant |-> "All", args |-> <<>>]
Expr(t) == [variant |-> "Expr", args |-> <<t>>]
\* struct Select(u8)
Select(n) == [variant |-> "Select", args |-> <<n>>]

\* <Column as Syntax>::parse
Column_parse(P) ==
    LET a == pop_if(P, Tok("ASTERISK")) IN
    IF a.ret THEN POk(All, a.parser)
    ELSE LET r == pop(a.parser) IN
         IF r.kind = "Err" THEN r ELSE POk(Expr(r.value), r.parser)

\* <Select as Syntax>::parse
Select_parse(P) ==
    LET r == expect(P, Tok("SELECT")) IN
    IF r.kind = "Err" THEN r ELSE POk(Select(10), r.parser)

\* the rules R that implement Syntax
Rules == {"Column", "Select"}

\* R::parse(parser)
parse(R, P) ==
    CASE R = "Column" -> Column_parse(P)
      [] R = "Select" -> Select_parse(P)

\* Result::unwrap on an Err: the thread panics with the error in the message
Panic(e, P) == [kind |-> "Panic", err |-> e, parser |-> P]

RECURSIVE CommaLoop(_, _, _)

\* a loop that puts each new item in front of the earlier ones
CommaLoopPrepends(R, v, P) ==
    LET c == pop_if(P, Tok("COMMA")) IN
    IF ~c.ret THEN POk(v, c.parser)
    ELSE LET r == parse(R, c.parser) IN
         IF r.kind = "Err" THEN Panic(r.err, r.parser)
         ELSE CommaLoop(R, <<r.value>> \o v, r.parser)

\* <CommaDelimited<R> as Syntax>::parse, the while loop
CommaLoop(R, v, P) ==
    LET c == pop_if(P, Tok("COMMA")) IN
    IF ~c.ret THEN POk(v, c.parser)
    ELSE LET r == parse(R, c.parser) IN
         IF r.kind = "Err" THEN Panic(r.err, r.parser)
         ELSE CommaLoop(R, Append(v, r.value), r.parser)

\* <CommaDelimited<R> as Syntax>::parse, and SyntaxExt::parse_comma_delimited
\* which only calls it
CommaDelimited_parse(R, P) ==
    LET r == parse(R, P) IN
    IF r.kind = "Err" THEN Panic(r.err, r.parser)
    ELSE CommaLoop(R, <<r.value>>, r.parser)

\* the tokens of the vectors given to Parser::from_tokens
ParseTokens == {Identifier(<<"a">>), Identifier(<<"b">>),
                StringLiteral(<<"s">>), NumberLiteral(<<"5">>),
                Tok("COMMA"), Tok("ASTERISK"), Tok("SELECT")}

\* the tokens a caller compares the front token with
Expected == {Identifier(<<"a">>), Tok("COMMA"), Tok("SELECT")}

TokenVecs == UNION {[1..n -> ParseTokens] : n \in 0..MaxTokens}

\* a cursor over any vector of tokens: Parser::from_tokens(v)
InitParse ==
    /\ InitLexer
    /\ InitNoWord
    /\ input = <<>>
    /\ pc = "parsing"
    /\ lexret = NoCall
    /\ given \in TokenVecs
    /\ cursor = from_tokens(given)
    /\ pres = NoCall

\* no call follows a panic
Running == pc = "parsing" /\ pres.kind # "Panic"

\* a call on the cursor: pres keeps the call, the cursor before it, and
\* what it returned: the value of Ok, the error of Err or of the panic
Call(op, arg, r) ==
    /\ cursor' = r.parser
    /\ pres' = [op |-> op, arg |-> arg, before |-> cursor, kind |-> r.kind,
                out |-> IF r.kind = "Ok" THEN r.value ELSE r.err]
    /\ UNCHANGED <<lexerVars, fed, res, lexVars, given, wordVars>>

\* parser.pop()
Pop ==
    /\ Running
    /\ Call("pop", <<>>, pop(cursor))

\* parser.pop_if(&t)
PopIf(t) ==
    /\ Running
    /\ LET r == pop_if(cursor, t) IN
         Call("pop_if", t, [kind |-> "Ok", value |-> r.ret, parser |-> r.parser])

\* parser.peek()
Peek ==
    /\ Running
    /\ Call("peek", <<>>, POk(peek(cursor), cursor))

\* parser.peek_is(&t)
PeekIs(t) ==
    /\ Running
    /\ Call("peek_is", t, POk(peek_is(cursor, t), cursor))

\* parser.expect(&t)
Expect(t) ==
    /\ Running
    /\ Call("expect", t, expect(cursor, t))

\* parser.expect_string()
ExpectString ==
    /\ Running
    /\ Call("expect_string", <<>>, expect_string(cursor))

\* parser.expect_number()
ExpectNumber ==
    /\ Running
    /\ Call("expect_number", <<>>, expect_number(cursor))

\* parser.expect_identifier()
ExpectIdentifier ==
    /\ Running
    /\ Call("expect_identifier", <<>>, expect_identifier(cursor))

\* R::parse(&mut parser)
Parse(R) ==
    /\ Running
    /\ Call("parse", R, parse(R, cursor))

\* R::parse_comma_delimited(&mut parser)
ParseCommaDelimited(R) ==
    /\ Running
    /\ Call("parse_comma_delimited", R, CommaDelimited_parse(R, cursor))

NextParse ==
    \/ Pop
    \/ \E t \in Expected : PopIf(t)
    \/ Peek
    \/ \E t \in Expected : PeekIs(t)
    \/ \E t \in Expected : Expect(t)
    \/ ExpectString
    \/ ExpectNumber
    \/ ExpectIdentifier
    \/ \E R \in Rules : Parse(R)
    \/ \E R \in Rules : ParseCommaDelimited(R)

SpecParse == InitParse /\ [][NextParse]_vars

\* the tokens of the vectors a comma-delimited list is parsed from
ListTokens == {Identifier(<<"a">>), Identifier(<<"b">>), Identifier(<<"c">>),
               Tok("COMMA"), Tok("ASTERISK"), Tok("FROM")}

ListVecs == UNION {[1..n -> ListTokens] : n \in 0..MaxList}

\* a cursor standing at the start of a list, as in tests::comma_delimited
InitList ==
    /\ InitLexer
    /\ InitNoWord
    /\ input = <<>>
    /\ pc = "parsing"
    /\ lexret = NoCall
    /\ given \in ListVecs
    /\ cursor = from_tokens(given)
    /\ pres = NoCall

NextList == \E R \in Rules : ParseCommaDelimited(R)

SpecList == InitList /\ [][NextList]_vars

---------------------------------------------------------------------------
\* Token::from_str applied to a word (src/syntax/token.rs).

MaxWord == 3

\* letters of both cases that spell or, if, int, not, into; a digit and '_'
WordChars == {"o","O","r","R","i","I","f","n","t","T","_","5"}

Words == UNION {[1..n -> WordChars] : n \in 0..MaxWord}

InitWord ==
    /\ InitLexer
    /\ InitNoParser
    /\ input = <<>>
    /\ pc = "word"
    /\ lexret = NoCall
    /\ wstr \in Words
    /\ wtoken = NoCall

\* Token::from_str(&word)
FromStr ==
    /\ pc = "word"
    /\ wtoken' = from_str(wstr)
    /\ UNCHANGED <<lexerVars, fed, res, lexVars, parserVars, wstr>>

NextWord == FromStr

SpecWord == InitWord /\ [][NextWord]_vars

---------------------------------------------------------------------------
\* Properties of lex (SpecLex)

Last(s) == s[Len(s)]

InEscape == state \in {"Escape(false)", "Escape(true)"}

\* C1: when the text ends while the lexer is in Text or Number with a
\* non-empty buffer and lex returns Ok, the token sequence it returns ends
\* with the buffered word (from_str(word) or NumberLiteral(word)): the
\* word is not dropped.
C1_TrailingWordEmitted ==
    (pc = "ok" /\ state \in {"Text", "Number"} /\ buffer # <<>>) =>
        lexret.parser =
            Append(tokens, IF state = "Text" THEN from_str(buffer)
                           ELSE NumberLiteral(buffer))

\* C2: when the text ends inside a backtick literal (Escape(false) or
\* Escape(true)), lex returns an error, never Ok.
C2_UnterminatedLiteralFails ==
    (pc # "lexing" /\ fed = input /\ InEscape) => lexret.kind = "Err"

\* a number as the spec writes it: digits and at most one "."
IsNumberText(w) ==
    /\ w # <<>>
    /\ \A i \in 1..Len(w) : w[i] \in Digits \cup {"."}
    /\ Cardinality({i \in 1..Len(w) : w[i] = "."}) <= 1

\* w is a contiguous run of s
ContiguousIn(w, s) ==
    \E i \in 0..(Len(s) - Len(w)) : SubSeq(s, i + 1, i + Len(w)) = w

\* C8: every NumberLiteral among the tokens has a payload of digits and at
\* most one ".", which is a contiguous run of the characters fed.
C8_NumberLiteralPayload ==
    \A i \in 1..Len(tokens) :
        tokens[i].type = "NumberLiteral" =>
            /\ IsNumberText(tokens[i].text)
            /\ ContiguousIn(tokens[i].text, fed)

\* C9: lex returns Ok only after every character was fed with success, and
\* then with all the accumulated tokens; the first failing feed ends it:
\* lex returns that error and no token, and feeds no later character.
C9_FailFast ==
    /\ pc = "ok" =>
          /\ fed = input
          /\ res.kind # "Err"
          /\ FeedAll(Fresh, input).kind = "Ok"
          /\ lexret = [kind |-> "Ok", parser |-> tokens]
    /\ res.kind = "Err" =>
          /\ pc = "err"
          /\ lexret = res
          /\ "parser" \notin DOMAIN lexret
          /\ fed = SubSeq(input, 1, Len(fed))
          /\ FeedAll(Fresh, SubSeq(fed, 1, Len(fed) - 1)).kind = "Ok"
          /\ ~ ENABLED LexFeed
    /\ pc = "err" => res.kind = "Err"

\* C9 witness: a feed failed with tokens accumulated and text left
C9_Witness ==
    pc = "err" /\ tokens # <<>> /\ Len(fed) < Len(input)

\* the texts "--", any characters but newline, newline
CommentTexts ==
    {<<"-", "-">> \o body \o <<"\n">> :
        body \in {<<>>, <<"a">>, <<"#", Backtick>>, <<" ", "5", "-">>}}

\* every character of the model, and some the lexer rejects elsewhere
AnyChars == Chars \cup LexChars \cup {"\t", "_", "(", "*", "~", "\""}

\* C10, one feed in Comment: the state stays Comment (None on newline),
\* tokens and buffer are unchanged, and the feed does not fail.
C10_Step ==
    (state = "Comment" /\ fed' # fed) =>
        /\ res'.kind = "Ok"
        /\ tokens' = tokens
        /\ buffer' = buffer
        /\ state' = IF Last(fed') = "\n" THEN "None" ELSE "Comment"

\* C10, whatever the character: no character fails in Comment
C10_AnyChar ==
    state = "Comment" =>
        \A c \in AnyChars :
            LET r == feed(Self, c) IN
              /\ r.kind = "Ok"
              /\ r.lexer.tokens = tokens /\ r.lexer.buffer = buffer
              /\ r.state = IF c = "\n" THEN "None" ELSE "Comment"

\* C10, hence: a comment line before a text changes nothing of what lex
\* returns for it: the same tokens, or an error as well
C10_Elided ==
    pc \in {"ok", "err"} =>
        \A t \in CommentTexts :
            LET r == lex(t \o input) IN
              /\ r.kind = lexret.kind
              /\ r.kind = "Ok" => r.parser = lexret.parser

\* C10: comments contribute nothing.
C10_CommentsContributeNothing ==
    [][C10_Step]_vars /\ [](C10_AnyChar /\ C10_Elided)

\* C10 witness: a text that starts with a comment and goes on to a token
C10_Witness ==
    /\ pc = "ok"
    /\ Len(input) > 3
    /\ SubSeq(input, 1, 2) = <<"-", "-">>
    /\ input[3] # "\n"
    /\ tokens # <<>>
    /\ lex(input) = lex(SubSeq(input, 5, Len(input)))

---------------------------------------------------------------------------
\* Properties of feed (Spec)

\* the pairs that Disambiguate resolves to one token or to a comment
TwoCharPairs ==
    {<<"-", "-">>, <<"<", ">">>, <<"<", "=">>, <<">", "=">>, <<"|", "|">>}

\* C4, one feed in Disambiguate of a character that forms no two-character
\* operator with last_char: the token of last_char alone is emitted and
\* the character is handled as the None arm handles it.
C4_Step ==
    (state = "Disambiguate" /\ fed' # fed
        /\ <<last_char, Last(fed')>> \notin TwoCharPairs) =>
        LET c == Last(fed')
            alone == [Self EXCEPT !.tokens = tokens \o from_char(last_char),
                                  !.state = "None"]
            e == FeedNone(alone, c)
        IN /\ res'.kind = e.kind
           /\ e.kind = "Ok" =>
                 /\ tokens' = e.lexer.tokens
                 /\ buffer' = e.lexer.buffer
                 /\ state' = e.state

\* C4: in Disambiguate, a pair that is no two-character operator resolves
\* the first character alone and never fails for the pair.
C4_LoneOperator == [][C4_Step]_vars

\* the two-character operators, and "<" before a space
PairTokens ==
    {<<"<", "=", "LESSTHANOREQUAL">>, <<"<", ">", "NOTEQUAL">>,
     <<">", "=", "GREATERTHANOREQUAL">>, <<"|", "|", "DOUBLEPIPE">>,
     <<"<", " ", "LESSTHAN">>}

C5_Step ==
    /\ (fed' # fed /\ state = "None" /\ Last(fed') \in {"<", ">", "|"}) =>
          /\ res'.kind = "Ok"
          /\ state' = "Disambiguate"
          /\ tokens' = tokens
    /\ \A p \in PairTokens :
          (fed' # fed /\ state = "Disambiguate" /\ last_char = p[1]
              /\ Last(fed') = p[2]) =>
             /\ res'.kind = "Ok"
             /\ tokens' = Append(tokens, Tok(p[3]))
             /\ state' = "None"

\* C5: from None the first character of "<=", "<>", ">=", "||", "< " leads
\* to Disambiguate with no token, and the second appends exactly the one
\* token of the pair and leads back to None.
C5_TwoCharOperators == [][C5_Step]_vars

\* C5 witness: "<=" was fed to a fresh lexer
C5_Witness ==
    /\ fed = <<"<", "=">>
    /\ tokens = <<Tok("LESSTHANOREQUAL")>>
    /\ state = "None"

\* the 1-based line and column in s of its last character
LineOf(s) ==
    1 + Cardinality({i \in 1..(Len(s) - 1) : s[i] = "\n"})

ColumnOf(s) ==
    LET before == {i \in 1..(Len(s) - 1) : s[i] = "\n"}
        start == IF before = {} THEN 0
                 ELSE CHOOSE i \in before : \A j \in before : j <= i
    IN Len(s) - start

\* C7: the error of a failed feed carries the 1-based line and the 1-based
\* column of the offending character.
C7_ErrorPosition ==
    res.kind = "Err" =>
        /\ res.err.c = Last(fed)
        /\ res.err.line = LineOf(fed)
        /\ res.err.column = ColumnOf(fed)

---------------------------------------------------------------------------
\* Properties of the comma-delimited combinator (SpecParse, SpecList)

\* C3: parse_comma_delimited returns a value: Ok, or Err with the
\* ParserError of the rule (OutOfTokens or Expecting); it never panics.
C3_FailurePropagated ==
    (pres.kind # "NoCall" /\ pres.op = "parse_comma_delimited") =>
        /\ pres.kind \in {"Ok", "Err"}
        /\ pres.kind = "Err" => pres.out.error \in {"OutOfTokens", "Expecting"}

\* what rule R makes of the one token it consumes
RuleOutput(R, t) ==
    IF R = "Column"
    THEN IF t = Tok("ASTERISK") THEN All ELSE Expr(t)
    ELSE Select(10)

\* the tokens [a, COMMA, b, COMMA, c, FROM]
ExampleList ==
    <<Identifier(<<"a">>), Tok("COMMA"), Identifier(<<"b">>), Tok("COMMA"),
      Identifier(<<"c">>), Tok("FROM")>>

\* C6: on success the result has one output per item, in source order and
\* at least one; the tokens consumed are item (COMMA item)*, and the
\* cursor is left at the first token after an item that is not COMMA.
C6_ListInOrder ==
    (pres.kind = "Ok" /\ pres.op = "parse_comma_delimited") =>
        LET v == pres.out
            before == pres.before
            n == Len(before) - Len(cursor)
        IN /\ Len(v) >= 1
           /\ n = 2 * Len(v) - 1
           /\ cursor = SubSeq(before, n + 1, Len(before))
           /\ \A i \in 1..Len(v) : v[i] = RuleOutput(pres.arg, before[2 * i - 1])
           /\ \A i \in 1..(Len(v) - 1) : before[2 * i] = Tok("COMMA")
           /\ cursor # <<>> => Head(cursor) # Tok("COMMA")
           /\ (pres.arg = "Column" /\ before = ExampleList) =>
                 /\ v = <<Expr(Identifier(<<"a">>)), Expr(Identifier(<<"b">>)),
                          Expr(Identifier(<<"c">>))>>
                 /\ Head(cursor) = Tok("FROM")

\* C6 witness: the Column list of the example was parsed
C6_Witness ==
    /\ pres.kind = "Ok"
    /\ pres.op = "parse_comma_delimited"
    /\ pres.arg = "Column"
    /\ pres.before = ExampleList
    /\ Len(pres.out) = 3

\* the last cursor operation was op
Called(op) == pres.kind # "NoCall" /\ pres.op = op

\* C11: pop_if(t) removes exactly the front token and returns true when the
\* cursor is non-empty and its front token equals t (payload included);
\* otherwise it returns false and leaves the cursor as it was. peek and
\* peek_is return the front token and the comparison and never change the
\* cursor.
C11_ConditionalPop ==
    /\ Called("pop_if") =>
          IF pres.before # <<>> /\ Head(pres.before) = pres.arg
          THEN pres.out = TRUE /\ cursor = Tail(pres.before)
          ELSE pres.out = FALSE /\ cursor = pres.before
    /\ Called("peek") =>
          /\ cursor = pres.before
          /\ pres.out = IF cursor = <<>> THEN <<>> ELSE <<Head(cursor)>>
    /\ Called("peek_is") =>
          /\ cursor = pres.before
          /\ pres.out = (cursor # <<>> /\ Head(cursor) = pres.arg)

\* C11 witness: pop_if removed a matching front token from a longer cursor
C11_Witness ==
    /\ Called("pop_if")
    /\ pres.out = TRUE
    /\ Len(pres.before) >= 2
    /\ cursor = Tail(pres.before)

\* the operations that remove the front token
Consuming == {"pop", "expect", "expect_string", "expect_number",
              "expect_identifier"}

\* C12: on an exhausted cursor pop, expect and the three expect_* return
\* OutOfTokens, never a mismatch and never a panic, and the cursor stays
\* empty, whatever operations came before.
C12_ExhaustedCursor ==
    (pres.kind # "NoCall" /\ pres.op \in Consuming /\ pres.before = <<>>) =>
        /\ pres.kind = "Err"
        /\ pres.out.error = "OutOfTokens"
        /\ cursor = <<>>

\* C12 witness: expect_string on a cursor that earlier operations emptied
C12_Witness ==
    /\ Called("expect_string")
    /\ pres.before = <<>>
    /\ given # <<>>
    /\ pres.kind = "Err"

\* the variant an expect_* operation accepts
VariantOf(op) ==
    CASE op = "expect_string" -> "StringLiteral"
      [] op = "expect_number" -> "NumberLiteral"
      [] op = "expect_identifier" -> "Identifier"

\* C13: on a non-empty cursor expect(t) always removes exactly the front
\* token; it returns that token when it equals t and an Expecting error
\* otherwise, the token being consumed all the same. expect_string,
\* expect_number and expect_identifier do the same on the variant.
C13_ExpectConsumes ==
    /\ (Called("expect") /\ pres.before # <<>>) =>
          /\ cursor = Tail(pres.before)
          /\ IF Head(pres.before) = pres.arg
             THEN pres.kind = "Ok" /\ pres.out = Head(pres.before)
             ELSE pres.kind = "Err" /\ pres.out.error = "Expecting"
    /\ (pres.kind # "NoCall"
          /\ pres.op \in {"expect_string", "expect_number", "expect_identifier"}
          /\ pres.before # <<>>) =>
          /\ cursor = Tail(pres.before)
          /\ IF Head(pres.before).type = VariantOf(pres.op)
             THEN pres.kind = "Ok" /\ pres.out = Head(pres.before)
             ELSE pres.kind = "Err" /\ pres.out.error = "Expecting"

\* C13 witness: expect failed on a mismatch and the token is gone
C13_Witness ==
    /\ Called("expect")
    /\ pres.kind = "Err"
    /\ pres.before # <<>>
    /\ Head(pres.before) # pres.arg
    /\ cursor = Tail(pres.before)

\* s is a suffix of t
IsSuffix(s, t) ==
    Len(s) <= Len(t) /\ s = SubSeq(t, Len(t) - Len(s) + 1, Len(t))

\* the index in the sequence given to from_tokens of the front of P
Position(P) == Len(given) - Len(P) + 1

\* C14: the cursor only moves forward: what remains is always a suffix of
\* the sequence given to from_tokens and never grows, and a successful pop
\* returns the token of the original sequence at the position the cursor
\* had reached, which no later pop can return again.
C14_Step ==
    /\ IsSuffix(cursor', cursor)
    /\ (pres' # pres /\ pres'.op = "pop" /\ pres'.kind = "Ok") =>
          /\ pres'.out = given[Position(cursor)]
          /\ Position(cursor') = Position(cursor) + 1

C14_ForwardOnly ==
    [][C14_Step]_vars /\ [](pc = "parsing" => IsSuffix(cursor, given))

\* C14 witness: the third pop in a row returned the third token
C14_Witness ==
    /\ Called("pop")
    /\ pres.kind = "Ok"
    /\ Len(given) = 3
    /\ cursor = <<>>
    /\ pres.out = given[3]

\* the keyword and type table of the language: lowercase word, token
Keywords ==
    { <<<<"s","e","l","e","c","t">>, "SELECT">>,
      <<<<"f","r","o","m">>, "FROM">>,
      <<<<"w","h","e","r","e">>, "WHERE">>,
      <<<<"o","r","d","e","r">>, "ORDER">>,
      <<<<"i","n","s","e","r","t">>, "INSERT">>,
      <<<<"i","n","t","o">>, "INTO">>,
      <<<<"c","r","e","a","t","e">>, "CREATE">>,
      <<<<"t","a","b","l","e">>, "TABLE">>,
      <<<<"d","r","o","p">>, "DROP">>,
      <<<<"i","f">>, "IF">>,
      <<<<"e","x","i","s","t","s">>, "EXISTS">>,
      <<<<"n","o","t">>, "NOT">>,
      <<<<"n","u","l","l">>, "NULL">>,
      <<<<"d","e","f","a","u","l","t">>, "DEFAULT">>,
      <<<<"s","e","r","i","a","l">>, "SERIAL">>,
      <<<<"a","n","d">>, "AND">>,
      <<<<"o","r">>, "OR">>,
      <<<<"i","n","t">>, "INTEGER">>,
      <<<<"i","n","t","e","g","e","r">>, "INTEGER">>,
      <<<<"t","e","x","t">>, "TEXT">>,
      <<<<"f","l","o","a","t">>, "FLOAT">>,
      <<<<"b","l","o","b">>, "BLOB">> }

KeywordWords == {k[1] : k \in Keywords}

\* C15: from_str folds case: the token of a word is the token of its
\* lowercase form; a word whose lowercase form is in the keyword table
\* maps to that keyword whatever its case, every other word to the
\* Identifier of its lowercase form, so that an Identifier payload has no
\* uppercase letter and is no keyword or type name.
C15_CaseFolding ==
    (pc = "word" /\ wtoken # NoCall) =>
        LET low == Lowercase(wstr) IN
        /\ wtoken = from_str(low)
        /\ \A k \in Keywords : low = k[1] => wtoken = Tok(k[2])
        /\ low \notin KeywordWords => wtoken = Identifier(low)
        /\ wtoken.type = "Identifier" =>
              /\ \A i \in 1..Len(wtoken.text) : wtoken.text[i] \notin Range(Upper)
              /\ wtoken.text \notin KeywordWords

\* C15 witness: a keyword written in mixed case was folded to its token
C15_Witness ==
    /\ pc = "word"
    /\ wstr = <<"n","O","T">>
    /\ wtoken = Tok("NOT")

EscapeStates == {"Escape(false)", "Escape(true)"}

\* C16: while every feed from the fresh lexer has succeeded, the buffer is
\* empty whenever the state is None, and it is non-empty only in Text,
\* Number or Escape: no path that leaves Escape for None leaves a residue.
C16_BufferEmptyInNone ==
    pc \in {"lexing", "ok"} =>
        /\ state = "None" => buffer = <<>>
        /\ buffer # <<>> => state \in {"Text", "Number"} \cup EscapeStates

\* C17, one feed of a backtick in Escape(true)
C17_Step ==
    (state = "Escape(true)" /\ fed' # fed /\ Last(fed') = Backtick) =>
        /\ res'.kind = "Ok"
        /\ IF last_char = "\\"
           THEN /\ buffer' = Append(buffer, Backtick)
                /\ state' \in EscapeStates
                /\ tokens' = tokens
           ELSE /\ tokens' = Append(tokens, StringLiteral(buffer))
                /\ buffer' = <<>>
                /\ state' = "None"

\* C17: inside a literal a backtick that follows a backslash is content: it
\* is appended to the buffer and the literal goes on with no token; any
\* other backtick emits StringLiteral(buffer), clears the buffer and
\* returns to None.
C17_EscapedBacktick == [][C17_Step]_vars

\* C18, one feed of the first '.' of a number
C18_Step ==
    (state = "Number" /\ fed' # fed /\ Last(fed') = "."
        /\ "." \notin Range(buffer)) =>
        /\ res'.kind = "Ok"
        /\ buffer' = Append(buffer, ".")
        /\ tokens' = tokens
        /\ state' = "Number"

\* C18: in Number a '.' fed when the buffer has none is appended to the
\* buffer, with no token, and the state stays Number.
C18_DecimalPoint == [][C18_Step]_vars

\* the characters the language resolves with one character of lookahead
Eligible == {"<", ">", "|", "-", "+"}

Whitespace == {" ", "\t", "\n"}

\* C19, one feed in None
C19_Step ==
    (state = "None" /\ fed' # fed) =>
        LET c == Last(fed') IN
        CASE c \in Eligible ->
               res'.kind = "Ok" /\ state' = "Disambiguate" /\ tokens' = tokens
          [] c \notin Eligible /\ from_char(c) # <<>> ->
               /\ res'.kind = "Ok"
               /\ state' = "None"
               /\ tokens' = tokens \o from_char(c)
          [] c \in Whitespace ->
               res'.kind = "Ok" /\ state' = "None" /\ tokens' = tokens
          [] IsLetter(c) \/ c = "_" -> res'.kind = "Ok" /\ state' = "Text"
          [] c \in Digits -> res'.kind = "Ok" /\ state' = "Number"
          [] c = Backtick -> res'.kind = "Ok" /\ state' = "Escape(false)"
          [] OTHER -> res'.kind = "Err"

\* C19: from None, < > | - + lead to Disambiguate with no token; any other
\* character with a token of its own appends that token and stays in None;
\* whitespace stays in None; a letter or '_' leads to Text, a digit to
\* Number, a backtick to Escape(false); anything else is an error.
C19_FromNone == [][C19_Step]_vars

\* C20, one feed in Text
C20_Step ==
    (state = "Text" /\ fed' # fed) =>
        LET c == Last(fed') IN
        CASE IsLetter(c) \/ c \in Digits \/ c = "_" ->
               /\ res'.kind = "Ok"
               /\ buffer' = Append(buffer, c)
               /\ state' = "Text"
               /\ tokens' = tokens
          [] c \in Whitespace \/ from_char(c) # <<>> ->
               /\ res'.kind = "Ok"
               /\ tokens' = Append(tokens, from_str(buffer)) \o from_char(c)
               /\ buffer' = <<>>
               /\ state' = "None"
          [] OTHER -> res'.kind = "Err"

\* C20: in Text, letters, digits and '_' are appended to the buffer; a
\* boundary character, whitespace or one with a token of its own (< > - |
\* included), appends from_str(buffer) and then its own token, clears the
\* buffer and returns to None; only other characters fail.
C20_TextBoundary == [][C20_Step]_vars

\* the positions of the newlines among the characters fed
Newlines(s) == {i \in 1..Len(s) : s[i] = "\n"}

\* the number of characters fed since the most recent newline
SinceNewline(s) ==
    IF Newlines(s) = {} THEN Len(s)
    ELSE Len(s) - (CHOOSE i \in Newlines(s) : \A j \in Newlines(s) : j <= i)

\* C21, one feed: a newline adds one to line and resets column, any other
\* character leaves line and adds one to column
C21_Step ==
    fed' # fed =>
        IF Last(fed') = "\n"
        THEN line' = line + 1 /\ column' = 0
        ELSE line' = line /\ column' = column + 1

\* C21: the position counters follow every character fed, in every state
\* and whether the feed succeeds or fails: line counts the newlines fed
\* and never decreases, column is the number of characters fed since the
\* most recent newline.
C21_PositionTracksFeeds ==
    /\ [][C21_Step /\ line' >= line]_vars
    /\ [](line = Cardinality(Newlines(fed)) /\ column = SinceNewline(fed))

\* C21 witness: a feed failed on the second character after a newline
C21_Witness ==
    /\ res.kind = "Err"
    /\ Len(fed) >= 3
    /\ fed[Len(fed) - 2] = "\n"
    /\ line >= 1
    /\ column = 2

\* s is a prefix of t
IsPrefix(s, t) == Len(s) <= Len(t) /\ s = SubSeq(t, 1, Len(s))

\* C22, one feed: a failure leaves tokens, buffer, state and last_char as
\* they were; a success keeps the tokens it found as a prefix
C22_Step ==
    fed' # fed =>
        /\ res'.kind \in {"Ok", "Err"}
        /\ res'.kind = "Err" =>
              /\ tokens' = tokens
              /\ buffer' = buffer
              /\ state' = state
              /\ last_char' = last_char
              /\ state \in {"None", "Text", "Number", "Disambiguate"}
        /\ res'.kind = "Ok" => IsPrefix(tokens, tokens')

\* C22: a failed feed changes only the position counters, and the token
\* sequence is append-only.
C22_FailedFeedChangesNothing == [][C22_Step]_vars

\* C22 witness: a feed failed in Text after a token, with a word pending
C22_Witness ==
    /\ res.kind = "Err"
    /\ state = "Text"
    /\ buffer # <<>>
    /\ tokens # <<>>
    /\ column = Len(fed)

===========================================================================
